---- MODULE Spec2Model ----
(***************************************************************************)
(* Model of techin.py: the transport classification of send_ngl_message    *)
(* and the retry/backoff loop of send_multiple_messages.                   *)
(*                                                                         *)
(* Python strings are sequences of one-character strings, so that the      *)
(* formatting of message_status and the test `"429" in message_status`     *)
(* are computed as the code computes them.  Floats are exact rationals     *)
(* <<numerator, denominator>>: every value the loop computes within the    *)
(* bounds is a dyadic rational that binary64 represents exactly.           *)
(***************************************************************************)
EXTENDS Integers, Sequences, FiniteSets, TLC

\* ------------------------------------------------------------------ bounds
MaxCount == 3
MaxRL == 7
MaxMisread == 1

\* --------------------------------------------------------------- constants
base_wait_time == 30
WaitCap == 300
PromptThreshold == 3

VARIABLES
    count,                    \* number of messages asked for
    i,                        \* slot index of the loop
    success_count,
    fail_count,
    consecutive_rate_limits,
    wait_time,                \* rational <<num, den>>, seconds
    remaining,                \* countdown: one-second sleeps still to do
    pc,                       \* position of the loop
    response,                 \* what session.post did on the last call
    message_status,           \* status text returned by send_ngl_message
    handled,                  \* branch of the loop that took the last pass
    slot,                     \* i printed by "[i/count] Sending..."
    passes,                   \* transport calls made so far
    skipped,                  \* passes taken by the final else branch
    aborted,                  \* the user chose "2" at the prompt
    summary,                  \* the printed summary block
    min_delay,                \* float <<num, den>>, seconds
    max_delay,
    slept,                    \* seconds slept since the last transport call
    answer,                   \* what the user typed at the last prompt
    rl_outcomes,              \* passes whose outcome was RateLimited
    other_outcomes,           \* passes whose outcome was another failure
    typed,                    \* what the user typed at the entry point
    username,                 \* arguments handed to send_multiple_messages
    message

vars == <<count, i, success_count, fail_count, consecutive_rate_limits,
          wait_time, remaining, pc, response, message_status, handled,
          slot, passes, skipped, aborted, summary, min_delay, max_delay,
          slept, answer, rl_outcomes, other_outcomes, typed, username,
          message>>

\* ------------------------------------------------------------ python text
S_Success == <<"S","u","c","c","e","s","s">>
S_RateLimited ==
    <<"R","a","t","e"," ","l","i","m","i","t","e","d"," ","(","4","2","9",")">>
S_StatusCode == <<"S","t","a","t","u","s"," ","c","o","d","e",":"," ">>
S_Timeout == <<"R","e","q","u","e","s","t"," ","t","i","m","e","o","u","t">>
S_Connection ==
    <<"C","o","n","n","e","c","t","i","o","n"," ","e","r","r","o","r">>
S_RequestError ==
    <<"R","e","q","u","e","s","t"," ","e","r","r","o","r",":"," ">>
S_429 == <<"4","2","9">>

DigitChar == <<"0","1","2","3","4","5","6","7","8","9">>

\* str(n) for a non-negative integer
RECURSIVE Str(_)
Str(n) == IF n < 10 THEN <<DigitChar[n + 1]>>
          ELSE Str(n \div 10) \o <<DigitChar[(n % 10) + 1]>>

\* Python's `sub in s` on strings
In(sub, s) ==
    \E k \in 1..(Len(s) - Len(sub) + 1) : SubSeq(s, k, k + Len(sub) - 1) = sub

IsSpace(c) == c \in {" ", "\t", "\n"}

RECURSIVE LStrip(_)
LStrip(s) == IF s # <<>> /\ IsSpace(Head(s)) THEN LStrip(Tail(s)) ELSE s

RECURSIVE RStrip(_)
RStrip(s) == IF s # <<>> /\ IsSpace(s[Len(s)])
             THEN RStrip(SubSeq(s, 1, Len(s) - 1)) ELSE s

\* variant: the answer is compared as typed
Strip_None(s) == s

\* str.strip()
Strip(s) == RStrip(LStrip(s))

UpperChar == <<"A","B","C","D","E","F","G","H","I","J","K","L","M",
               "N","O","P","Q","R","S","T","U","V","W","X","Y","Z">>
LowerChar == <<"a","b","c","d","e","f","g","h","i","j","k","l","m",
               "n","o","p","q","r","s","t","u","v","w","x","y","z">>

\* str.lower()
Lower(s) ==
    [k \in 1..Len(s) |->
        IF \E u \in 1..26 : UpperChar[u] = s[k]
        THEN LowerChar[CHOOSE u \in 1..26 : UpperChar[u] = s[k]]
        ELSE s[k]]

IsDigit(c) == \E d \in 1..10 : DigitChar[d] = c
DigitVal(c) == (CHOOSE d \in 1..10 : DigitChar[d] = c) - 1
AllDigits(s) == \A k \in 1..Len(s) : IsDigit(s[k])

\* value of a string of digits
RECURSIVE DigitsVal(_)
DigitsVal(s) ==
    IF s = <<>> THEN 0
    ELSE 10 * DigitsVal(SubSeq(s, 1, Len(s) - 1)) + DigitVal(s[Len(s)])

Pow10(k) == 10 ^ k

Unsigned(s) == IF s # <<>> /\ s[1] \in {"+", "-"} THEN Tail(s) ELSE s
Sign(s) == IF s # <<>> /\ s[1] = "-" THEN 0 - 1 ELSE 1

\* int(s) of a stripped string: [sign] digits, else ValueError
ParseInt(s) ==
    LET body == Unsigned(s) IN
    IF body # <<>> /\ AllDigits(body)
    THEN [ok |-> TRUE, val |-> Sign(s) * DigitsVal(body)]
    ELSE [ok |-> FALSE, val |-> 0]

\* ---------------------------------------------------------------- floats
RMul(a, b) == <<a[1] * b[1], a[2] * b[2]>>
RLeq(a, b) == a[1] * b[2] <= b[1] * a[2]
REq(a, b) == a[1] * b[2] = b[1] * a[2]
RMin(a, b) == IF RLeq(a, b) THEN a ELSE b

RECURSIVE RPow(_, _)
RPow(b, k) == IF k = 0 THEN <<1, 1>> ELSE RMul(b, RPow(b, k - 1))

\* int(x) for x >= 0
RInt(a) == a[1] \div a[2]

\* float("nan"): every comparison with it is false
NaN == <<0, 0>>
IsNaN(a) == a = NaN

RECURSIVE Gcd(_, _)
Gcd(a, b) == IF b = 0 THEN a ELSE Gcd(b, a % b)

Abs(x) == IF x < 0 THEN 0 - x ELSE x

\* one representative per value
Norm(a) ==
    IF a[2] = 0 THEN a
    ELSE LET g == Gcd(Abs(a[1]), a[2]) IN <<a[1] \div g, a[2] \div g>>

FLt(a, b) == ~IsNaN(a) /\ ~IsNaN(b) /\ a[1] * b[2] < b[1] * a[2]
FLeq(a, b) == ~IsNaN(a) /\ ~IsNaN(b) /\ a[1] * b[2] <= b[1] * a[2]
FAdd(a, b) ==
    IF IsNaN(a) \/ IsNaN(b) THEN NaN
    ELSE Norm(<<a[1] * b[2] + b[1] * a[2], a[2] * b[2]>>)
FSub(a, b) ==
    IF IsNaN(a) \/ IsNaN(b) THEN NaN
    ELSE Norm(<<a[1] * b[2] - b[1] * a[2], a[2] * b[2]>>)
FMul(a, b) ==
    IF IsNaN(a) \/ IsNaN(b) THEN NaN
    ELSE Norm(<<a[1] * b[1], a[2] * b[2]>>)

\* float(s) of a stripped string: "nan", or [sign] digits [. digits] with a
\* digit on at least one side of the point, else ValueError
ParseFloat(s) ==
    LET body == Unsigned(s)
        dots == {k \in 1..Len(body) : body[k] = "."}
        dot == IF dots = {} THEN Len(body) + 1 ELSE CHOOSE k \in dots : TRUE
        whole == SubSeq(body, 1, dot - 1)
        frac == SubSeq(body, dot + 1, Len(body))
    IN  IF Lower(body) = <<"n", "a", "n">> THEN [ok |-> TRUE, val |-> NaN]
        ELSE IF /\ Cardinality(dots) <= 1
                /\ AllDigits(whole) /\ AllDigits(frac)
                /\ Len(whole) + Len(frac) > 0
        THEN [ok |-> TRUE,
              val |-> Norm(<<Sign(s) * (DigitsVal(whole) * Pow10(Len(frac))
                                        + DigitsVal(frac)),
                             Pow10(Len(frac))>>)]
        ELSE [ok |-> FALSE, val |-> NaN]

\* values of random.random(); rounding can make uniform() return its end point
Randoms == {<<0, 1>>, <<1, 2>>, <<1, 1>>}

\* random.uniform(a, b) == a + (b - a) * random()
uniform(a, b, r) == FAdd(a, FMul(FSub(b, a), r))

\* ------------------------------------------------------------- transport
\* What session.post can do on one call.  The adapter of create_session
\* retries 500/502/503/504 itself and raises once its retries are used up,
\* so those codes reach send_ngl_message as an exception, not as a response.
StatusCodes == {200, 204, 404, 429}

D_Eof == <<"E","O","F">>
D_Retries == <<"t","o","o"," ","m","a","n","y"," ","5","0","0">>
D_Read == <<"4","2","9"," ","b","y","t","e","s"," ","r","e","a","d">>
Details == {<<>>, D_Eof, D_Retries, D_Read}

NoResponse == [kind |-> "none", code |-> 0, detail |-> <<>>]

Responses ==
    [kind : {"status"}, code : StatusCodes, detail : {<<>>}]
    \cup [kind : {"timeout", "connection"}, code : {0}, detail : {<<>>}]
    \cup [kind : {"other"}, code : {0}, detail : Details]

\* The outcome class of one attempt (SendOutcome.reason)
Reason(r) ==
    CASE r.kind = "status" /\ r.code = 200 -> "Success"
      [] r.kind = "status" /\ r.code = 429 -> "RateLimited"
      [] r.kind = "status" -> "HttpStatus"
      [] r.kind = "timeout" -> "Timeout"
      [] r.kind = "connection" -> "ConnectionError"
      [] r.kind = "other" -> "OtherError"
      [] OTHER -> "None"

\* variant: every 2xx status counts as a success
send_ngl_message_Any2xx(r) ==
    IF r.kind = "status"
    THEN IF r.code \div 100 = 2 THEN <<TRUE, S_Success>>
         ELSE IF r.code = 429 THEN <<FALSE, S_RateLimited>>
         ELSE <<FALSE, S_StatusCode \o Str(r.code)>>
    ELSE IF r.kind = "timeout" THEN <<FALSE, S_Timeout>>
    ELSE IF r.kind = "connection" THEN <<FALSE, S_Connection>>
    ELSE <<FALSE, S_RequestError \o r.detail>>

\* send_ngl_message: <<success, message_status>>
send_ngl_message(r) ==
    IF r.kind = "status"
    THEN IF r.code = 200 THEN <<TRUE, S_Success>>
         ELSE IF r.code = 429 THEN <<FALSE, S_RateLimited>>
         ELSE <<FALSE, S_StatusCode \o Str(r.code)>>
    ELSE IF r.kind = "timeout" THEN <<FALSE, S_Timeout>>
    ELSE IF r.kind = "connection" THEN <<FALSE, S_Connection>>
    ELSE <<FALSE, S_RequestError \o r.detail>>

\* ------------------------------------------------------------------ loop
\* variant: the cap of line 117 is left out
WaitTime_NoCap(n) == RMul(<<base_wait_time, 1>>, RPow(<<3, 2>>, n - 1))

\* variant: the backoff doubles instead of growing by half
WaitTime_Double(n) ==
    RMin(RMul(<<base_wait_time, 1>>, RPow(<<2, 1>>, n - 1)), <<WaitCap, 1>>)

\* wait_time = min(base_wait_time * (1.5 ** (n - 1)), 300)
WaitTime(n) ==
    RMin(RMul(<<base_wait_time, 1>>, RPow(<<3, 2>>, n - 1)), <<WaitCap, 1>>)

\* variant: the quotient is taken with integer division
RateTenths_IntDiv(s, f) == (s \div (s + f)) * 1000

\* f"{x*100:.1f}" of x = s/(s+f), in tenths of a percent (round half even)
RateTenths(s, f) ==
    LET q == (1000 * s) \div (s + f)
        r == (1000 * s) % (s + f)
    IN  IF 2 * r > s + f \/ (2 * r = s + f /\ q % 2 = 1) THEN q + 1 ELSE q

\* delay bounds the entry point can hand to the loop (lines 205-214): the
\* defaults, and a min_delay that is not a number
DelayConfigs ==
    {<<<<1, 1>>, <<2, 1>>>>, <<NaN, <<2, 1>>>>}

NoTyped == [username |-> <<>>, message |-> <<>>, count |-> <<>>,
            min_delay |-> <<>>, max_delay |-> <<>>, confirm |-> <<>>]

NoSummary == [printed |-> FALSE, successful |-> 0, failed |-> 0, of |-> 0,
              rate_shown |-> FALSE, rate |-> 0]

Init ==
    /\ count \in 1..MaxCount
    /\ i = 1
    /\ success_count = 0
    /\ fail_count = 0
    /\ consecutive_rate_limits = 0
    /\ wait_time = <<0, 1>>
    /\ remaining = 0
    /\ pc = "loop"
    /\ response = NoResponse
    /\ message_status = <<>>
    /\ handled = "none"
    /\ slot = 0
    /\ passes = 0
    /\ skipped = 0
    /\ aborted = FALSE
    /\ summary = NoSummary
    /\ \E c \in DelayConfigs : min_delay = c[1] /\ max_delay = c[2]
    /\ slept = <<0, 1>>
    /\ answer = <<>>
    /\ rl_outcomes = 0
    /\ other_outcomes = 0
    /\ typed = NoTyped
    /\ username = <<"a">>
    /\ message = <<"h", "i">>

\* variant: a success moves the index two slots on
SuccessBranch_Skip ==
    /\ success_count' = success_count + 1
    /\ consecutive_rate_limits' = 0
    /\ i' = i + 2
    /\ pc' = IF i + 2 <= count THEN "delay" ELSE "loop"
    /\ handled' = "success"
    /\ UNCHANGED <<fail_count, wait_time, remaining, skipped>>

\* if success: (lines 100-109)
SuccessBranch ==
    /\ success_count' = success_count + 1
    /\ consecutive_rate_limits' = 0
    /\ i' = i + 1
    /\ pc' = IF i + 1 <= count THEN "delay" ELSE "loop"
    /\ handled' = "success"
    /\ UNCHANGED <<fail_count, wait_time, remaining, skipped>>

\* variant: a rate-limited retry is not counted as a failure
RateLimitedBranch_NoTally ==
    /\ fail_count' = fail_count
    /\ consecutive_rate_limits' = consecutive_rate_limits + 1
    /\ wait_time' = WaitTime(consecutive_rate_limits + 1)
    /\ IF consecutive_rate_limits + 1 >= PromptThreshold
       THEN pc' = "prompt" /\ remaining' = remaining
       ELSE pc' = "countdown" /\ remaining' = RInt(WaitTime(consecutive_rate_limits + 1))
    /\ handled' = "rate_limited"
    /\ UNCHANGED <<success_count, i, skipped>>

\* variant: a rate-limited slot is passed over instead of retried
RateLimitedBranch_Advance ==
    /\ fail_count' = fail_count + 1
    /\ consecutive_rate_limits' = consecutive_rate_limits + 1
    /\ wait_time' = WaitTime(consecutive_rate_limits + 1)
    /\ IF consecutive_rate_limits + 1 >= PromptThreshold
       THEN pc' = "prompt" /\ remaining' = remaining
       ELSE pc' = "countdown" /\ remaining' = RInt(WaitTime(consecutive_rate_limits + 1))
    /\ handled' = "rate_limited"
    /\ i' = i + 1
    /\ UNCHANGED <<success_count, skipped>>

\* variant: the prompt test of line 125 is `> 3`
RateLimitedBranch_Late ==
    /\ fail_count' = fail_count + 1
    /\ consecutive_rate_limits' = consecutive_rate_limits + 1
    /\ wait_time' = WaitTime(consecutive_rate_limits + 1)
    /\ IF consecutive_rate_limits + 1 > PromptThreshold
       THEN pc' = "prompt" /\ remaining' = remaining
       ELSE pc' = "countdown" /\ remaining' = RInt(WaitTime(consecutive_rate_limits + 1))
    /\ handled' = "rate_limited"
    /\ UNCHANGED <<success_count, i, skipped>>

\* elif "429" in message_status: (lines 111-125), up to the prompt test
RateLimitedBranch ==
    /\ fail_count' = fail_count + 1
    /\ consecutive_rate_limits' = consecutive_rate_limits + 1
    /\ wait_time' = WaitTime(consecutive_rate_limits + 1)
    /\ IF consecutive_rate_limits + 1 >= PromptThreshold
       THEN pc' = "prompt" /\ remaining' = remaining
       ELSE pc' = "countdown" /\ remaining' = RInt(WaitTime(consecutive_rate_limits + 1))
    /\ handled' = "rate_limited"
    /\ UNCHANGED <<success_count, i, skipped>>

\* else: (lines 145-152), up to the fixed sleep
FailureBranch ==
    /\ fail_count' = fail_count + 1
    /\ consecutive_rate_limits' = 0
    /\ i' = i + 1
    /\ pc' = "sleep2"
    /\ handled' = "failure"
    /\ skipped' = skipped + 1
    /\ UNCHANGED <<success_count, wait_time, remaining>>

\* One pass of `while i <= count`: the transport call and its branch.
\* A status text with 429 in it comes back at most MaxRL times in a run, and
\* at most MaxMisread times from an exception.
Pass ==
    /\ pc = "loop"
    /\ i <= count
    /\ \E r \in Responses :
        LET res == send_ngl_message(r) IN
        /\ (~res[1] /\ In(S_429, res[2])) => fail_count - skipped < MaxRL
        /\ (r.kind = "other" /\ In(S_429, res[2])) =>
                fail_count - skipped - rl_outcomes < MaxMisread
        /\ response' = r
        /\ message_status' = res[2]
        /\ slot' = i
        /\ passes' = passes + 1
        /\ rl_outcomes' =
            IF Reason(r) = "RateLimited" THEN rl_outcomes + 1 ELSE rl_outcomes
        /\ other_outcomes' =
            IF Reason(r) \in {"Success", "RateLimited"}
            THEN other_outcomes ELSE other_outcomes + 1
        /\ IF res[1] THEN SuccessBranch
           ELSE IF In(S_429, res[2]) THEN RateLimitedBranch
           ELSE FailureBranch
    /\ slept' = <<0, 1>>
    /\ UNCHANGED <<typed, username, message, count, aborted, summary, min_delay, max_delay, answer>>

\* time.sleep(random.uniform(min_delay, max_delay)) (lines 107-109)
\* time.sleep raises ValueError on a NaN, which nothing catches
Delay ==
    /\ pc = "delay"
    /\ \E r \in Randoms :
        LET delay == uniform(min_delay, max_delay, r) IN
        IF IsNaN(delay)
        THEN pc' = "crashed" /\ slept' = slept
        ELSE pc' = "loop" /\ slept' = delay
    /\ UNCHANGED <<typed, username, message, count, i, success_count, fail_count,
                   consecutive_rate_limits, wait_time, remaining, response,
                   message_status, handled, slot, passes, skipped, aborted,
                   summary, min_delay, max_delay, answer, rl_outcomes,
                   other_outcomes>>

\* time.sleep(2) (line 152)
Sleep2 ==
    /\ pc = "sleep2"
    /\ pc' = "loop"
    /\ slept' = <<2, 1>>
    /\ UNCHANGED <<typed, username, message, count, i, success_count, fail_count,
                   consecutive_rate_limits, wait_time, remaining, response,
                   message_status, handled, slot, passes, skipped, aborted,
                   summary, min_delay, max_delay, answer, rl_outcomes,
                   other_outcomes>>

Answers == {<<"1">>, <<"2">>, <<" ","2"," ">>, <<"2","2">>}

\* variant: any answer but "2" is asked for again
Prompt_AskAgain ==
    /\ pc = "prompt"
    /\ \E a \in Answers :
        /\ answer' = a
        /\ IF Strip(a) = <<"2">>
           THEN
             /\ aborted' = TRUE
             /\ pc' = "summary"
             /\ remaining' = remaining
           ELSE
             /\ aborted' = aborted
             /\ pc' = "prompt"
             /\ remaining' = remaining
    /\ UNCHANGED <<typed, username, message, count, i, success_count, fail_count,
                   consecutive_rate_limits, wait_time, response,
                   message_status, handled, slot, passes, skipped, summary,
                   min_delay, max_delay, slept, rl_outcomes, other_outcomes>>

\* choice = input(...).strip(); if choice == "2": break (lines 131-135)
Prompt ==
    /\ pc = "prompt"
    /\ \E a \in Answers :
        /\ answer' = a
        /\ IF Strip(a) = <<"2">>
           THEN
             /\ aborted' = TRUE
             /\ pc' = "summary"
             /\ remaining' = remaining
           ELSE
             /\ aborted' = aborted
             /\ pc' = "countdown"
             /\ remaining' = RInt(wait_time)
    /\ UNCHANGED <<typed, username, message, count, i, success_count, fail_count,
                   consecutive_rate_limits, wait_time, response,
                   message_status, handled, slot, passes, skipped, summary,
                   min_delay, max_delay, slept, rl_outcomes, other_outcomes>>

\* one turn of the countdown: time.sleep(1) (lines 138-140)
Tick ==
    /\ pc = "countdown"
    /\ remaining > 0
    /\ remaining' = remaining - 1
    /\ slept' = FAdd(slept, <<1, 1>>)
    /\ UNCHANGED <<typed, username, message, count, i, success_count, fail_count,
                   consecutive_rate_limits, wait_time, pc, response,
                   message_status, handled, slot, passes, skipped, aborted,
                   summary, min_delay, max_delay, answer, rl_outcomes,
                   other_outcomes>>

\* the countdown is over: "Wait complete. Retrying..." (line 141)
WaitComplete ==
    /\ pc = "countdown"
    /\ remaining = 0
    /\ pc' = "loop"
    /\ UNCHANGED <<typed, username, message, count, i, success_count, fail_count,
                   consecutive_rate_limits, wait_time, remaining, response,
                   message_status, handled, slot, passes, skipped, aborted,
                   summary, min_delay, max_delay, slept, answer, rl_outcomes,
                   other_outcomes>>

\* `while i <= count` is false (line 95)
LoopExit ==
    /\ pc = "loop"
    /\ ~(i <= count)
    /\ pc' = "summary"
    /\ UNCHANGED <<typed, username, message, count, i, success_count, fail_count,
                   consecutive_rate_limits, wait_time, remaining, response,
                   message_status, handled, slot, passes, skipped, aborted,
                   summary, min_delay, max_delay, slept, answer, rl_outcomes,
                   other_outcomes>>

\* the summary block (lines 154-161)
Summary ==
    /\ pc = "summary"
    /\ summary' = [printed |-> TRUE,
                   successful |-> success_count,
                   failed |-> fail_count,
                   of |-> count,
                   rate_shown |-> success_count > 0,
                   rate |-> IF success_count > 0
                            THEN RateTenths(success_count, fail_count)
                            ELSE 0]
    /\ pc' = "done"
    /\ UNCHANGED <<typed, username, message, count, i, success_count, fail_count,
                   consecutive_rate_limits, wait_time, remaining, response,
                   message_status, handled, slot, passes, skipped, aborted,
                   min_delay, max_delay, slept, answer, rl_outcomes,
                   other_outcomes>>

Next ==
    \/ Pass
    \/ Delay
    \/ Sleep2
    \/ Prompt
    \/ Tick
    \/ WaitComplete
    \/ LoopExit
    \/ Summary

Spec == Init /\ [][Next]_vars

\* the loop is sequential and every call in it returns: it never stops while
\* a step is possible
LiveSpec == Init /\ [][Next]_vars /\ WF_vars(Next)

\* ------------------------------------------------------------ entry point
UserInputs == {<<>>, <<" ">>, <<" ", "a">>}
MessageInputs == {<<>>, <<"h", "i", " ">>}
CountInputs ==
    {Str(n) : n \in 0..MaxCount} \cup {<<>>, <<"x">>, <<"-", "1">>}
MinInputs ==
    {<<>>, <<"0", ".", "2">>, <<"2">>, <<"3">>, <<"x">>, <<"n", "a", "n">>}
MaxInputs == {<<>>, <<"x">>}
ConfirmInputs == {<<" ", "Y", " ">>, <<"n">>, <<>>}

\* `input(...).strip() or default`
OrDefault(s, default) == IF s = <<>> THEN default ELSE s

\* the delay settings (lines 205-214): <<min_delay, max_delay>>
DelaySettings(lo, hi) ==
    LET a == ParseFloat(OrDefault(Strip(lo), <<"1">>))
        b == ParseFloat(OrDefault(Strip(hi), <<"2">>))
    IN  IF ~a.ok \/ ~b.ok THEN <<<<1, 1>>, <<2, 1>>>>
        ELSE IF FLt(a.val, <<1, 2>>) \/ FLt(b.val, a.val)
        THEN <<<<1, 1>>, <<2, 1>>>>
        ELSE <<a.val, b.val>>

\* before the first prompt: nothing of the loop exists yet
MainInit ==
    /\ pc = "main"
    /\ count = 0
    /\ i = 1
    /\ success_count = 0
    /\ fail_count = 0
    /\ consecutive_rate_limits = 0
    /\ wait_time = <<0, 1>>
    /\ remaining = 0
    /\ response = NoResponse
    /\ message_status = <<>>
    /\ handled = "none"
    /\ slot = 0
    /\ passes = 0
    /\ skipped = 0
    /\ aborted = FALSE
    /\ summary = NoSummary
    /\ min_delay = <<1, 1>>
    /\ max_delay = <<2, 1>>
    /\ slept = <<0, 1>>
    /\ answer = <<>>
    /\ rl_outcomes = 0
    /\ other_outcomes = 0
    /\ typed = NoTyped
    /\ username = <<>>
    /\ message = <<>>

\* the script body (lines 183-228): prompts, checks, then the loop is started
Main ==
    /\ pc = "main"
    /\ \E u \in UserInputs, m \in MessageInputs, c \in CountInputs,
          lo \in MinInputs, hi \in MaxInputs, y \in ConfirmInputs :
        LET target_username == Strip(u)
            message_to_send == Strip(m)
            message_count == ParseInt(Strip(c))
            delays == DelaySettings(lo, hi)
            confirm == Lower(Strip(y))
        IN  /\ typed' = [username |-> u, message |-> m, count |-> c,
                         min_delay |-> lo, max_delay |-> hi, confirm |-> y]
            /\ IF target_username = <<>> \/ message_to_send = <<>>
                  \/ ~message_count.ok \/ message_count.val < 1
               THEN /\ pc' = "exit1"
                    /\ UNCHANGED <<username, message, count, min_delay,
                                   max_delay>>
               ELSE IF confirm # <<"y">>
               THEN /\ pc' = "exit0"
                    /\ UNCHANGED <<username, message, count, min_delay,
                                   max_delay>>
               ELSE /\ pc' = "loop"
                    /\ username' = target_username
                    /\ message' = message_to_send
                    /\ count' = message_count.val
                    /\ min_delay' = delays[1]
                    /\ max_delay' = delays[2]
    /\ UNCHANGED <<i, success_count, fail_count, consecutive_rate_limits,
                   wait_time, remaining, response, message_status, handled,
                   slot, passes, skipped, aborted, summary, slept, answer,
                   rl_outcomes, other_outcomes>>

MainNext ==
    \/ Main
    \/ Next

MainSpec == MainInit /\ [][MainNext]_vars

TypeOK ==
    /\ count \in 1..MaxCount
    /\ i \in Nat
    /\ success_count \in Nat
    /\ fail_count \in Nat
    /\ consecutive_rate_limits \in 0..MaxRL
    /\ remaining \in 0..WaitCap
    /\ pc \in {"loop", "delay", "sleep2", "prompt", "countdown", "summary", "done",
             "crashed"}
    /\ handled \in {"none", "success", "rate_limited", "failure"}
    /\ aborted \in BOOLEAN

\* ---------------------------------------------------------------- claims
\* a step that is one pass of the loop (one transport call)
PassStep == passes' = passes + 1

\* C1 (as stated): a pass whose outcome is RateLimited leaves i unchanged,
\* a pass with any other outcome increases i by exactly 1.
C1_IndexAdvance ==
    [][PassStep =>
        IF Reason(response') = "RateLimited" THEN i' = i ELSE i' = i + 1]_vars

\* C2: success_count + fail_count equals the number of passes made so far,
\* and each pass adds exactly 1 to exactly one of the two tallies.
C2_TallyMatchesPasses ==
    [][/\ success_count' + fail_count' = passes'
       /\ PassStep =>
            \/ success_count' = success_count + 1 /\ fail_count' = fail_count
            \/ success_count' = success_count /\ fail_count' = fail_count + 1
       /\ ~PassStep =>
            success_count' = success_count /\ fail_count' = fail_count]_vars

C2_Witness ==
    /\ passes >= 4
    /\ success_count >= 1
    /\ fail_count > skipped
    /\ skipped >= 1

\* C3 (as stated): a run that ends without abort ends with
\* success_count = count.
C3_Original == (pc = "done" /\ ~aborted) => success_count = count

\* C3 (amended): a run that ends without abort ends with success_count equal
\* to count minus the number of passes that were counted and skipped as
\* failures.
C3_Amended == (pc = "done" /\ ~aborted) => success_count = count - skipped

C3_Witness ==
    /\ pc = "done"
    /\ ~aborted
    /\ skipped >= 1
    /\ success_count >= 1
    /\ fail_count > skipped

\* C4 (as stated): a pass whose outcome is Success or a failure other than
\* RateLimited sets consecutive_rate_limits to 0, a pass whose outcome is
\* RateLimited adds exactly 1 to it.
C4_Original ==
    [][PassStep =>
        IF Reason(response') = "RateLimited"
        THEN consecutive_rate_limits' = consecutive_rate_limits + 1
        ELSE consecutive_rate_limits' = 0]_vars

\* C5: on a RateLimited pass the prompt is shown iff consecutive_rate_limits
\* (after the increment) is >= 3; an abort leads straight to the summary and
\* no transport call follows it.
C5_PromptAndAbort ==
    [][/\ (PassStep /\ Reason(response') = "RateLimited") =>
            (pc' = "prompt" <=> consecutive_rate_limits' >= 3)
       /\ (~aborted /\ aborted') => (pc = "prompt" /\ pc' = "summary")
       /\ aborted => (~PassStep /\ pc' \in {"summary", "done"})]_vars

C5_Witness ==
    /\ aborted
    /\ pc = "done"
    /\ Reason(response) = "RateLimited"
    /\ consecutive_rate_limits >= 3
    /\ i <= count

\* 30 * 1.5^(n-1), written out
Uncapped(n) == <<30 * 3 ^ (n - 1), 2 ^ (n - 1)>>

C7_Original ==
    handled = "rate_limited" =>
        /\ consecutive_rate_limits = 1 => REq(wait_time, <<30, 1>>)
        /\ consecutive_rate_limits = 2 => REq(wait_time, <<45, 1>>)
        /\ consecutive_rate_limits = 3 => REq(wait_time, <<135, 2>>)
        /\ consecutive_rate_limits = 6 => REq(wait_time, <<300, 1>>)

\* C7 (amended): wait(1) = 30, wait(2) = 45, wait(3) = 67.5 and
\* wait(6) = 227.8125 seconds.
C7_Amended ==
    handled = "rate_limited" =>
        /\ consecutive_rate_limits = 1 => REq(wait_time, <<30, 1>>)
        /\ consecutive_rate_limits = 2 => REq(wait_time, <<45, 1>>)
        /\ consecutive_rate_limits = 3 => REq(wait_time, <<135, 2>>)
        /\ consecutive_rate_limits = 6 => REq(wait_time, <<3645, 16>>)

C7_Witness ==
    /\ handled = "rate_limited"
    /\ consecutive_rate_limits = 6
    /\ pc = "countdown"
    /\ remaining = 227

\* C8: 1 <= i <= count + 1 always, and every transport call is made with
\* 1 <= i <= count.
C8_IndexRange ==
    /\ 1 <= i
    /\ i <= count + 1
    /\ passes > 0 => (1 <= slot /\ slot <= count)

C8_Witness ==
    /\ i = count + 1
    /\ slot = count
    /\ passes > count

\* C9 (as stated): the summary shows the success rate exactly when
\* successes + failures is nonzero.
C9_Original ==
    summary.printed =>
        (summary.rate_shown <=> summary.successful + summary.failed # 0)

\* C10 (as stated): every failure outcome other than RateLimited is counted
\* once and its slot passed over; only an HTTP 429 response is handled as
\* rate-limited.
C10_Original ==
    [][PassStep =>
        /\ Reason(response') \notin {"Success", "RateLimited"} =>
            /\ fail_count' = fail_count + 1
            /\ i' = i + 1
            /\ handled' = "failure"
        /\ handled' = "rate_limited" => Reason(response') = "RateLimited"]_vars

\* C11: a run that is not aborted and whose outcomes are count Success and k
\* RateLimited ends after count + k passes with count successes, k failures
\* and the rate count / (count + k), printed to one decimal; count = 3 and
\* k = 2 give 60.0.
C11_RetriesThenSuccess ==
    (summary.printed /\ ~aborted /\ other_outcomes = 0) =>
        LET n == count
            k == rl_outcomes
        IN  /\ passes = n + k
            /\ success_count = n
            /\ fail_count = k
            /\ summary.successful = n
            /\ summary.failed = k
            /\ summary.rate_shown
            /\ 2 * Abs(summary.rate * (n + k) - 1000 * n) <= n + k
            /\ (n = 3 /\ k = 2) => summary.rate = 600

C11_Witness ==
    /\ summary.printed
    /\ ~aborted
    /\ other_outcomes = 0
    /\ count = 3
    /\ rl_outcomes = 2
    /\ passes = 5
    /\ summary.rate = 600

\* C12 (as stated): a run in which no outcome is RateLimited ends after
\* exactly count passes, with success_count the number of Success outcomes
\* and fail_count the number of other outcomes.
C12_Original ==
    (summary.printed /\ rl_outcomes = 0) =>
        /\ passes = count
        /\ success_count = passes - other_outcomes
        /\ fail_count = other_outcomes

\* C13: the attempt is a success iff the status is 200; the status text is
\* "Success" for 200, "Rate limited (429)" for 429, "Status code: <code>" for
\* any other status, "Request timeout" for a timeout, "Connection error" for a
\* connection failure and "Request error: <detail>" for any other exception.
C13_Classification ==
    passes > 0 =>
        /\ handled = "success" <=> (response.kind = "status" /\ response.code = 200)
        /\ Reason(response) = "Success" => message_status = S_Success
        /\ Reason(response) = "RateLimited" => message_status = S_RateLimited
        /\ Reason(response) = "HttpStatus" =>
            /\ response.code = 204 =>
                message_status = S_StatusCode \o <<"2", "0", "4">>
            /\ response.code = 404 =>
                message_status = S_StatusCode \o <<"4", "0", "4">>
            /\ SubSeq(message_status, 1, Len(S_StatusCode)) = S_StatusCode
            /\ Len(message_status) = Len(S_StatusCode) + 3
        /\ Reason(response) = "Timeout" => message_status = S_Timeout
        /\ Reason(response) = "ConnectionError" => message_status = S_Connection
        /\ Reason(response) = "OtherError" =>
            message_status = S_RequestError \o response.detail
        /\ Reason(response) # "None"

C13_Witness ==
    /\ passes > 0
    /\ response.kind = "status"
    /\ response.code = 204
    /\ handled = "failure"
    /\ message_status = S_StatusCode \o <<"2", "0", "4">>

\* C14 (as stated): after a rate-limited pass that is not aborted the loop
\* sleeps one second at a time for a total of wait_time seconds, then retries
\* the same slot, and no transport call is made before the countdown is over.
C14_Original ==
    [][/\ (pc = "countdown" /\ pc' = "loop") =>
            /\ REq(slept, wait_time)
            /\ i' = slot /\ i' <= count
       /\ PassStep => (pc = "loop" /\ remaining = 0)]_vars

\* C15 (as stated): back at the head of the loop after a Success the loop has
\* slept some d with min_delay <= d <= max_delay if more sends remain and has
\* not slept at all after the last send; after a failure other than
\* RateLimited it has slept exactly 2 seconds, also on the last slot.
C15_Original ==
    (pc = "loop" /\ passes > 0) =>
        /\ Reason(response) = "Success" =>
            IF i <= count
            THEN FLeq(min_delay, slept) /\ FLeq(slept, max_delay)
            ELSE slept = <<0, 1>>
        /\ Reason(response) \notin {"Success", "RateLimited"} =>
            slept = <<2, 1>>

\* the loop is no longer running
Stopped == pc \in {"summary", "done", "crashed"}

\* C16 (as stated): the loop stops only with i > count or after the user chose
\* abort at a prompt reached with consecutive_rate_limits >= 3; the summary is
\* printed once, and only after the loop has stopped.
C16_Original ==
    [][/\ Stopped' =>
            \/ i' > count'
            \/ aborted' /\ consecutive_rate_limits' >= 3
       /\ (~Stopped /\ Stopped') => pc' = "summary"
       /\ summary'.printed => pc' = "done"
       /\ summary.printed => summary' = summary]_vars

\* C17 (as stated): the loop is started only with a non-empty trimmed handle
\* and message, count >= 1 and a confirmation 'y', and with delay bounds
\* 0 <= min_delay <= max_delay.
C17_Original ==
    pc \notin {"main", "exit0", "exit1"} =>
        /\ Strip(typed.username) # <<>> /\ username = Strip(typed.username)
        /\ Strip(typed.message) # <<>> /\ message = Strip(typed.message)
        /\ count >= 1
        /\ Lower(Strip(typed.confirm)) = <<"y">>
        /\ FLeq(<<0, 1>>, min_delay)
        /\ FLeq(min_delay, max_delay)

\* C18 (as stated): success_count + fail_count - (RateLimited passes so far)
\* = i - 1 at every point, so success_count <= count, and a run that ends
\* without abort made count + (RateLimited outcomes) transport calls.
C18_Original ==
    /\ success_count + fail_count - rl_outcomes = i - 1
    /\ success_count <= count
    /\ (summary.printed /\ ~aborted) => passes = count + rl_outcomes

NotSpace(c) == ~IsSpace(c)

\* C20: at the prompt only an answer that is "2" once trimmed aborts, any
\* other answer starts the countdown; an abort skips the countdown, and the
\* pass that led to the prompt is already in fail_count and
\* consecutive_rate_limits while i and success_count stay as they were.
C20_PromptAnswer ==
    [][/\ (pc = "prompt" /\ pc' # "prompt") =>
            LET two == SelectSeq(answer', NotSpace) = <<"2">> IN
            /\ aborted' <=> two
            /\ two => (pc' = "summary" /\ remaining' = remaining)
            /\ ~two => (pc' = "countdown" /\ remaining' * wait_time[2] <= wait_time[1]
                        /\ wait_time[1] < (remaining' + 1) * wait_time[2])
            /\ slept' = slept
            /\ i' = i /\ success_count' = success_count
            /\ fail_count' = fail_count
            /\ consecutive_rate_limits' = consecutive_rate_limits
       /\ (pc # "prompt" /\ pc' = "prompt") =>
            /\ fail_count' = fail_count + 1
            /\ consecutive_rate_limits' = consecutive_rate_limits + 1
            /\ i' = i /\ success_count' = success_count
       /\ aborted =>
            /\ slept' = slept /\ passes' = passes
            /\ i' = i /\ success_count' = success_count
            /\ fail_count' = fail_count
            /\ consecutive_rate_limits' = consecutive_rate_limits]_vars

C20_Witness ==
    /\ aborted
    /\ answer = <<" ", "2", " ">>
    /\ summary.printed
    /\ slept = <<0, 1>>
    /\ fail_count >= 3
    /\ consecutive_rate_limits >= 3
    /\ i <= count

====
